---- MODULE Spec2Model ----
(***************************************************************************)
(* Quote grounding and chunk merging of the contract key-terms extractor.  *)
(*                                                                         *)
(* Strings are sequences of one-character strings; offsets are the         *)
(* 0-based offsets of the TypeScript code.  Confidence is counted in       *)
(* hundredths (0.9 is 90), null offsets and pages are NULL.                *)
(***************************************************************************)
EXTENDS Integers, Sequences, FiniteSets, TLC

\* ------------------------------------------------------------------------
\* Bounds of the model
\* ------------------------------------------------------------------------
MaxTextLen == 3
MaxQuoteLen == 4
MaxMergeTextLen == 2
MaxMergeClaims == 2

\* ------------------------------------------------------------------------
\* Values
\* ------------------------------------------------------------------------
\* null of page / start / end (the schema allows only values >= 0 or null)
NULL == -1

\* a claim whose quote property is missing (undefined)
NoQuote == <<"undefined">>

Statuses == {"found", "not_found", "inferred"}

\* characters matched by \s in the regular expressions and by trim()
Whitespace == {" ", "\n", "\t"}

\* characters the enumerated texts and quotes are made of
Alphabet == {"a", "b", " "}

Min2(a, b) == IF a < b THEN a ELSE b

Max2(a, b) == IF a > b THEN a ELSE b

SetMin(S) == CHOOSE x \in S : \A y \in S : x <= y

\* all strings over Alphabet of length at most n
StringsUpTo(n) == UNION {[1..k -> Alphabet] : k \in 0..n}

\* ------------------------------------------------------------------------
\* JavaScript string primitives
\* ------------------------------------------------------------------------
Clamp(i, n) == IF i < 0 THEN 0 ELSE IF i > n THEN n ELSE i

\* s.substring(a, b): both arguments clamped to [0, length], swapped if a > b
Substring(s, a, b) ==
  LET ca == Clamp(a, Len(s))
      cb == Clamp(b, Len(s))
  IN  SubSeq(s, Min2(ca, cb) + 1, Max2(ca, cb))

\* s.substring(a)
SubstringFrom(s, a) == Substring(s, a, Len(s))

MatchesAt(s, pat, i) ==
  /\ i + Len(pat) <= Len(s)
  /\ SubSeq(s, i + 1, i + Len(pat)) = pat

\* mutant: the last occurrence instead of the first (lastIndexOf)
IndexOfFromLast(s, pat, from) ==
  LET hits == {i \in Clamp(from, Len(s))..Len(s) : MatchesAt(s, pat, i)}
  IN  IF hits = {} THEN -1 ELSE CHOOSE x \in hits : \A y \in hits : x >= y

\* s.indexOf(pat, from): first offset >= from where pat occurs, -1 if none
IndexOfFrom(s, pat, from) ==
  LET hits == {i \in Clamp(from, Len(s))..Len(s) : MatchesAt(s, pat, i)}
  IN  IF hits = {} THEN -1 ELSE SetMin(hits)

IndexOf(s, pat) == IndexOfFrom(s, pat, 0)

IsWs(c) == c \in Whitespace

RECURSIVE TrimStart(_)
TrimStart(s) ==
  IF s # <<>> /\ IsWs(Head(s)) THEN TrimStart(Tail(s)) ELSE s

RECURSIVE TrimEnd(_)
TrimEnd(s) ==
  IF s # <<>> /\ IsWs(s[Len(s)]) THEN TrimEnd(SubSeq(s, 1, Len(s) - 1)) ELSE s

\* s.trim()
Trim(s) == TrimEnd(TrimStart(s))

\* s.replace(/\s+/g, ' '): every maximal whitespace run becomes one space
RECURSIVE ReplaceWsRuns(_)
ReplaceWsRuns(s) ==
  IF s = <<>> THEN <<>>
  ELSE IF IsWs(Head(s))
       THEN <<" ">> \o ReplaceWsRuns(TrimStart(s))
       ELSE <<Head(s)>> \o ReplaceWsRuns(Tail(s))

\* s.replace(/\n/g, ' ')
ReplaceNewlines(s) == [i \in 1..Len(s) |-> IF s[i] = "\n" THEN " " ELSE s[i]]

\* ------------------------------------------------------------------------
\* chunk.ts / validate: helpers
\* ------------------------------------------------------------------------
\* mutant: normalization without the final trim
normalizeWhitespaceNoTrim(text) == ReplaceNewlines(ReplaceWsRuns(text))

normalizeWhitespace(text) == Trim(ReplaceNewlines(ReplaceWsRuns(text)))


\* program constants of the validator
NormalizedPenalty == 10
FuzzyPenalty == 20
FuzzyMaxQuoteLen == 200
FuzzyAnchorCap == 50

DefaultReasoning == "Quote could not be verified in the source document"

\* "no span" result (null) of findOriginalSpan and fuzzyFindQuote
NoSpan == [found |-> FALSE, text |-> <<>>, start |-> -1, end |-> -1]

\* the scanning loop of findOriginalSpan: the offset of the non-whitespace
\* character reached when charCount equals normalizedIndex, -1 if the loop
\* runs off the text
RECURSIVE ScanOriginalStart(_, _, _, _)
ScanOriginalStart(fullText, i, charCount, normalizedIndex) ==
  IF i >= Len(fullText) THEN -1
  ELSE IF Trim(<<fullText[i + 1]>>) # <<>>
       THEN IF charCount = normalizedIndex
            THEN i
            ELSE ScanOriginalStart(fullText, i + 1, charCount + 1, normalizedIndex)
       ELSE ScanOriginalStart(fullText, i + 1, charCount, normalizedIndex)

findOriginalSpan(fullText, normalizedIndex, approximateLength) ==
  LET originalStart == ScanOriginalStart(fullText, 0, 0, normalizedIndex)
      originalEnd == Min2(originalStart + approximateLength * 2, Len(fullText))
  IN  IF originalStart = -1 THEN NoSpan
      ELSE [found |-> TRUE,
            text  |-> Substring(fullText, originalStart, originalEnd),
            start |-> originalStart,
            end   |-> originalEnd]

\* Math.min(50, Math.floor(quote.length * 0.3))
AnchorLength(quote) == Min2(FuzzyAnchorCap, (Len(quote) * 3) \div 10)

\* mutant: the end phrase is searched from the start of the start phrase
fuzzyFindQuoteFromStart(quote, fullText) ==
  LET minLength  == AnchorLength(quote)
      quoteStart == Substring(quote, 0, minLength)
      quoteEnd   == SubstringFrom(quote, Len(quote) - minLength)
      startIndex == IndexOf(fullText, quoteStart)
      searchEnd  == Min2(startIndex + Len(quote) * 2, Len(fullText))
      endIndex   == IndexOfFrom(fullText, quoteEnd, startIndex)
      actualEnd  == endIndex + minLength
  IN  IF Len(quote) < minLength * 2 THEN NoSpan
      ELSE IF startIndex = -1 THEN NoSpan
      ELSE IF endIndex = -1 \/ endIndex > searchEnd THEN NoSpan
      ELSE [found |-> TRUE,
            text  |-> Substring(fullText, startIndex, actualEnd),
            start |-> startIndex,
            end   |-> actualEnd]

fuzzyFindQuote(quote, fullText) ==
  LET minLength  == AnchorLength(quote)
      quoteStart == Substring(quote, 0, minLength)
      quoteEnd   == SubstringFrom(quote, Len(quote) - minLength)
      startIndex == IndexOf(fullText, quoteStart)
      searchEnd  == Min2(startIndex + Len(quote) * 2, Len(fullText))
      endIndex   == IndexOfFrom(fullText, quoteEnd, startIndex + minLength)
      actualEnd  == endIndex + minLength
  IN  IF Len(quote) < minLength * 2 THEN NoSpan
      ELSE IF startIndex = -1 THEN NoSpan
      ELSE IF endIndex = -1 \/ endIndex > searchEnd THEN NoSpan
      ELSE [found |-> TRUE,
            text  |-> Substring(fullText, startIndex, actualEnd),
            start |-> startIndex,
            end   |-> actualEnd]

\* mutant: the guard tests only for the empty string
QuoteFalsyEmptyOnly(extraction) == extraction.quote = <<>>

\* !extraction.quote : the quote is missing or the empty string
QuoteFalsy(extraction) == extraction.quote = NoQuote \/ extraction.quote = <<>>

\* mutant: the early return without the trim() test
PassesThroughNoTrim(extraction) ==
  \/ extraction.status = "not_found"
  \/ QuoteFalsy(extraction)

\* the guard of the early return (|| evaluates left to right and stops at
\* the first true operand)
PassesThrough(extraction) ==
  \/ extraction.status = "not_found"
  \/ QuoteFalsy(extraction)
  \/ Trim(extraction.quote) = <<>>

\* extraction.quote.trim() is evaluated on a missing quote: TypeError
validateRaises(extraction) ==
  /\ extraction.status # "not_found"
  /\ ~QuoteFalsy(extraction)
  /\ extraction.quote = NoQuote

\* mutant: the end offset is one past the match
ExactResultEndPlusOne(extraction, exactIndex) ==
  [extraction EXCEPT
     !.start = IF @ = NULL THEN exactIndex ELSE @,
     !.end   = IF @ = NULL THEN exactIndex + Len(extraction.quote) + 1 ELSE @]

\* mutant: the exact tier lowers the confidence too
ExactResultLowersConfidence(extraction, exactIndex) ==
  [extraction EXCEPT
     !.start = IF @ = NULL THEN exactIndex ELSE @,
     !.end   = IF @ = NULL THEN exactIndex + Len(extraction.quote) ELSE @,
     !.confidence = Max2(0, @ - 10)]

\* the exact tier: the claim with null offsets filled in
ExactResult(extraction, exactIndex) ==
  [extraction EXCEPT
     !.start = IF @ = NULL THEN exactIndex ELSE @,
     !.end   = IF @ = NULL THEN exactIndex + Len(extraction.quote) ELSE @]

\* mutant: the penalty is added instead of subtracted
SpanResultAddsPenalty(extraction, span, penalty) ==
  [extraction EXCEPT
     !.quote = span.text,
     !.start = span.start,
     !.end = span.end,
     !.confidence = Max2(0, @ + penalty)]

\* a tier that located a span: quote and offsets of the span, lowered confidence
SpanResult(extraction, span, penalty) ==
  [extraction EXCEPT
     !.quote = span.text,
     !.start = span.start,
     !.end = span.end,
     !.confidence = Max2(0, @ - penalty)]

\* the record returned when no tier grounds the quote
FailureResult(extraction) ==
  [extraction EXCEPT
     !.status = "not_found",
     !.quote = <<>>,
     !.reasoning = IF @ = "" THEN DefaultReasoning ELSE @,
     !.start = NULL,
     !.end = NULL,
     !.confidence = 0]

\* which return statement of validateExtraction is taken
validateTier(extraction, fullText) ==
  LET quote == extraction.quote
      normalizedIndex ==
        IndexOf(normalizeWhitespace(fullText), normalizeWhitespace(quote))
  IN  IF PassesThrough(extraction) THEN "pass"
      ELSE IF IndexOf(fullText, quote) # -1 THEN "exact"
      ELSE IF /\ normalizedIndex # -1
              /\ findOriginalSpan(fullText, normalizedIndex, Len(quote)).found
           THEN "normalized"
      ELSE IF Len(quote) < FuzzyMaxQuoteLen /\ fuzzyFindQuote(quote, fullText).found
           THEN "fuzzy"
      ELSE "failed"

validateExtraction(extraction, fullText) ==
  LET quote == extraction.quote
      tier == validateTier(extraction, fullText)
  IN  CASE tier = "pass" -> extraction
        [] tier = "exact" -> ExactResult(extraction, IndexOf(fullText, quote))
        [] tier = "normalized" ->
             SpanResult(extraction,
                        findOriginalSpan(fullText,
                          IndexOf(normalizeWhitespace(fullText),
                                  normalizeWhitespace(quote)),
                          Len(quote)),
                        NormalizedPenalty)
        [] tier = "fuzzy" ->
             SpanResult(extraction, fuzzyFindQuote(quote, fullText), FuzzyPenalty)
        [] OTHER -> FailureResult(extraction)


\* ------------------------------------------------------------------------
\* merge.ts
\* ------------------------------------------------------------------------
\* mutant: the upper boundary of a bracket counted as part of the page
RECURSIVE findPageNumberFromInclusive(_, _, _)
findPageNumberFromInclusive(offset, pages, i) ==
  IF i >= Len(pages) - 1 THEN Max2(1, Len(pages) - 1)
  ELSE IF offset >= pages[i + 1] /\ offset <= pages[i + 2] THEN i + 1
  ELSE findPageNumberFromInclusive(offset, pages, i + 1)

RECURSIVE findPageNumberFrom(_, _, _)
findPageNumberFrom(offset, pages, i) ==
  IF i >= Len(pages) - 1 THEN Max2(1, Len(pages) - 1)
  ELSE IF offset >= pages[i + 1] /\ offset < pages[i + 2] THEN i + 1
  ELSE findPageNumberFrom(offset, pages, i + 1)

findPageNumber(offset, pages) == findPageNumberFrom(offset, pages, 0)

\* null result of locateQuote
NotLocated == [found |-> FALSE, exactQuote |-> <<>>, page |-> NULL,
               start |-> NULL, end |-> NULL]

\* mutant: the last occurrence of the quote is located
locateQuoteLast(quote, fullText, pages) ==
  LET start == IndexOfFromLast(fullText, quote, 0)
  IN  IF start # -1
      THEN [found |-> TRUE, exactQuote |-> quote,
            page |-> findPageNumber(start, pages),
            start |-> start, end |-> start + Len(quote)]
      ELSE NotLocated

locateQuote(quote, fullText, pages) ==
  LET start == IndexOf(fullText, quote)
  IN  IF start # -1
      THEN [found |-> TRUE, exactQuote |-> quote,
            page |-> findPageNumber(start, pages),
            start |-> start, end |-> start + Len(quote)]
      ELSE NotLocated

\* the claims of all chunks in iteration order
RECURSIVE Flatten(_)
Flatten(allExtractions) ==
  IF allExtractions = <<>> THEN <<>>
  ELSE Head(allExtractions) \o Flatten(Tail(allExtractions))

\* mutant: a key for every claim, also for a field already seen
RECURSIVE FieldKeysOfEveryClaim(_, _)
FieldKeysOfEveryClaim(flat, seen) ==
  IF flat = <<>> THEN <<>>
  ELSE <<Head(flat).field>> \o FieldKeysOfEveryClaim(Tail(flat), seen)

\* Array.from(byField.keys()): the field names in first-insertion order
RECURSIVE FieldKeys(_, _)
FieldKeys(flat, seen) ==
  IF flat = <<>> THEN <<>>
  ELSE IF Head(flat).field \in seen THEN FieldKeys(Tail(flat), seen)
  ELSE <<Head(flat).field>> \o FieldKeys(Tail(flat), seen \cup {Head(flat).field})

\* byField.get(field): the claims of one field in insertion order
RECURSIVE CandidatesOf(_, _)
CandidatesOf(flat, field) ==
  IF flat = <<>> THEN <<>>
  ELSE IF Head(flat).field = field
       THEN <<Head(flat)>> \o CandidatesOf(Tail(flat), field)
       ELSE CandidatesOf(Tail(flat), field)

IsFoundCandidate(c) == c.status = "found" /\ Len(Trim(c.quote)) > 0

\* insertion of c into a list sorted by quote length, longest first, after
\* every element that is at least as long (Array.prototype.sort is stable)
RECURSIVE InsertByLength(_, _)
InsertByLength(sorted, c) ==
  IF sorted = <<>> THEN <<c>>
  ELSE IF Len(Head(sorted).quote) >= Len(c.quote)
       THEN <<Head(sorted)>> \o InsertByLength(Tail(sorted), c)
       ELSE <<c>> \o sorted

\* mutant: the comparator reversed, shortest quote first
RECURSIVE SortByQuoteLengthAscending(_)
SortByQuoteLengthAscending(cands) ==
  IF cands = <<>> THEN <<>>
  ELSE LET rest == SortByQuoteLengthAscending(Tail(cands))
           shorter == SelectSeq(rest, LAMBDA c : Len(c.quote) < Len(Head(cands).quote))
           others == SelectSeq(rest, LAMBDA c : Len(c.quote) >= Len(Head(cands).quote))
       IN  shorter \o <<Head(cands)>> \o others

RECURSIVE SortByQuoteLength(_)
SortByQuoteLength(cands) ==
  IF cands = <<>> THEN <<>>
  ELSE InsertByLength(SortByQuoteLength(SubSeq(cands, 1, Len(cands) - 1)),
                      cands[Len(cands)])

RECURSIVE FilterFound(_)
FilterFound(cands) ==
  IF cands = <<>> THEN <<>>
  ELSE IF IsFoundCandidate(Head(cands))
       THEN <<Head(cands)>> \o FilterFound(Tail(cands))
       ELSE FilterFound(Tail(cands))

foundCandidates(flat, field) == SortByQuoteLength(FilterFound(CandidatesOf(flat, field)))

NotFoundRecord(field) ==
  [field |-> field, status |-> "not_found", quote |-> <<>>, page |-> NULL,
   start |-> NULL, end |-> NULL, confidence |-> 0]

\* the record pushed for one field
mergeField(flat, field, fullText, pages) ==
  LET cands == foundCandidates(flat, field)
      best == cands[1]
      located == locateQuote(best.quote, fullText, pages)
  IN  IF Len(cands) = 0 THEN NotFoundRecord(field)
      ELSE IF ~located.found THEN NotFoundRecord(field)
      ELSE [field |-> field, status |-> "found", quote |-> located.exactQuote,
            page |-> located.page, start |-> located.start, end |-> located.end,
            confidence |-> best.confidence]

mergeExtractions(allExtractions, fullText, pages) ==
  LET flat == Flatten(allExtractions)
      allFields == FieldKeys(flat, {})
  IN  [i \in 1..Len(allFields) |-> mergeField(flat, allFields[i], fullText, pages)]


\* ------------------------------------------------------------------------
\* Inputs
\* ------------------------------------------------------------------------
Texts == StringsUpTo(MaxTextLen)

Quotes == StringsUpTo(MaxQuoteLen) \cup {NoQuote}

\* strings made of one repeated character
UniformQuotes == {q \in StringsUpTo(MaxQuoteLen) : \A i \in 1..Len(q) : q[i] = q[1]}

\* confidence values of the schema's range 0..1, in hundredths
Confidences == {5, 90}

\* claimed offsets: null, the start of the text, an offset beyond the text
Offsets == {NULL, 0, MaxTextLen + 1}

\* claims as the prompt asks for them when no location is known
BareClaims ==
  [field : {"F"}, status : Statuses, quote : Quotes, reasoning : {""},
   page : {NULL}, start : {NULL}, end : {NULL}, confidence : Confidences]

\* claims that carry a reasoning, a page and offsets of their own
LocatedClaims ==
  [field : {"F"}, status : Statuses, quote : UniformQuotes, reasoning : {"", "r"},
   page : {NULL, 1}, start : Offsets, end : Offsets, confidence : {90}]

InputClaims == BareClaims \cup LocatedClaims

\* texts handed to mergeExtractions
MergeTexts == {t \in StringsUpTo(MaxMergeTextLen) : \A i \in 1..Len(t) : ~IsWs(t[i])}

MergeClaim(field, status, quote, confidence) ==
  [field |-> field, status |-> status, quote |-> quote, reasoning |-> "",
   page |-> NULL, start |-> NULL, end |-> NULL, confidence |-> confidence]

\* the claims one chunk can return for a field
MergeClaimsOf(field) ==
  { MergeClaim(field, "not_found", <<>>, 0),
    MergeClaim(field, "found", <<" ">>, 70),
    MergeClaim(field, "found", <<"a">>, 90),
    [MergeClaim(field, "found", <<"b">>, 20) EXCEPT !.page = 9, !.start = 5, !.end = 6],
    MergeClaim(field, "found", <<"a", "b">>, 50),
    MergeClaim(field, "inferred", <<"a", "b">>, 60) }

MergeClaims == MergeClaimsOf("F") \cup MergeClaimsOf("G")

\* the claims of all chunks, and the ways to split them into two chunks
MergeFlats == UNION {[1..n -> MergeClaims] : n \in 0..MaxMergeClaims}

MergeInputs ==
  {<<SubSeq(flat, 1, k), SubSeq(flat, k + 1, Len(flat))>> :
     <<flat, k>> \in {fk \in MergeFlats \X (0..MaxMergeClaims) : fk[2] <= Len(fk[1])}}

\* page offsets of a text of length n: one page, or two pages split at k
PageOffsetsOf(n) == {<<0, n>>} \cup {<<0, k, n>> : k \in 0..n}

\* Scenario 1 of the specification
ScenarioText ==
  <<"P", "a", "y", "m", "e", "n", "t", " ", "i", "s", " ", "d", "u", "e", " ",
    "i", "n", " ", "3", "0", " ", "d", "a", "y", "s", ".">>

Scenario1Claim ==
  [field |-> "Payment", status |-> "found", quote |-> ScenarioText,
   reasoning |-> "", page |-> NULL, start |-> NULL, end |-> NULL,
   confidence |-> 90]

\* ------------------------------------------------------------------------
\* State
\* ------------------------------------------------------------------------
VARIABLES
  op,        \* the operation the inputs were drawn for
  outcome,   \* "pending", "returned" or "threw"
  text,      \* fullText
  claim,     \* the extraction passed to validateExtraction
  result,    \* the extraction validateExtraction returned
  chunks,    \* allExtractions passed to mergeExtractions
  pages,     \* the page offsets passed to mergeExtractions
  merged,    \* the list mergeExtractions returned
  input,     \* the arguments of a call of one of the other functions
  output,    \* the value that call returned
  proc       \* the position and local variables of a loop in progress

vars == <<op, outcome, text, claim, result, chunks, pages, merged, input, output, proc>>

\* value of input and output while no call of the other functions is modelled
Unused == <<>>

InitValidate ==
  /\ op = "validate"
  /\ outcome = "pending"
  /\ \/ text \in Texts /\ claim \in InputClaims
     \/ text = ScenarioText /\ claim = Scenario1Claim
  /\ result = claim
  /\ chunks = <<>>
  /\ pages = <<>>
  /\ merged = <<>>
  /\ input = Unused
  /\ output = Unused
  /\ proc = Unused

InitMerge ==
  /\ op = "merge"
  /\ outcome = "pending"
  /\ text \in MergeTexts
  /\ chunks \in MergeInputs
  /\ pages \in PageOffsetsOf(Len(text))
  /\ claim = Scenario1Claim
  /\ result = claim
  /\ merged = <<>>
  /\ input = Unused
  /\ output = Unused
  /\ proc = Unused

Init == InitValidate \/ InitMerge

\* one call of validateExtraction(claim, text)
Validate ==
  /\ op = "validate"
  /\ outcome = "pending"
  /\ IF validateRaises(claim)
     THEN outcome' = "threw" /\ result' = result
     ELSE outcome' = "returned" /\ result' = validateExtraction(claim, text)
  /\ UNCHANGED <<op, text, claim, chunks, pages, merged, input, output, proc>>

\* one call of mergeExtractions(chunks, text, pages)
Merge ==
  /\ op = "merge"
  /\ outcome = "pending"
  /\ outcome' = "returned"
  /\ merged' = mergeExtractions(chunks, text, pages)
  /\ UNCHANGED <<op, text, claim, result, chunks, pages, input, output, proc>>

Next == Validate \/ Merge

Spec == Init /\ [][Next]_vars


\* ------------------------------------------------------------------------
\* Properties of validateExtraction and mergeExtractions
\* ------------------------------------------------------------------------
Validated == op = "validate" /\ outcome = "returned"

Merged == op = "merge" /\ outcome = "returned"

\* the claim has a quote that is not empty and not only whitespace
NonBlankQuote(c) == c.quote # NoQuote /\ Trim(c.quote) # <<>>

OccursIn(fullText, quote) == \E i \in 0..Len(fullText) : MatchesAt(fullText, quote, i)

\* C1: every record returned by validateExtraction with status "found" has
\* non-null start and end and text.substring(start, end) equal to its quote,
\* also when the claim carried offsets of its own (stated for the claims
\* whose quote is grounded, those with a non-blank quote).
C1_GroundingSoundness ==
  (Validated /\ NonBlankQuote(claim) /\ result.status = "found") =>
    /\ result.start # NULL
    /\ result.end # NULL
    /\ Substring(text, result.start, result.end) = result.quote

\* C2: a record returned with status "found", or with any status other than
\* "not_found" after grounding was attempted, has a quote that occurs verbatim
\* in the source text (stated for the claims that have a quote string).
C2_NoUnverifiedQuote ==
  (/\ Validated
   /\ claim.quote # NoQuote
   /\ \/ result.status = "found"
      \/ result.status # "not_found" /\ ~PassesThrough(claim)) =>
    OccursIn(text, result.quote)

\* C3: the confidence validateExtraction returns is at most the confidence of
\* the claim, and the confidence of every record mergeExtractions returns is
\* at most the confidence of the candidate selected for its field.
C3_ConfidenceMonotone ==
  /\ Validated => result.confidence <= claim.confidence
  /\ Merged =>
       \A i \in 1..Len(merged) :
         LET cands == foundCandidates(Flatten(chunks), merged[i].field)
         IN  cands # <<>> => merged[i].confidence <= cands[1].confidence

\* C3 witness: the normalized or fuzzy tier accepted a claim and lowered its
\* confidence.
C3_Witness ==
  /\ Validated
  /\ validateTier(claim, text) \in {"normalized", "fuzzy"}
  /\ result.confidence < claim.confidence

\* C4: when no tier grounds a claim with a non-blank quote and a status other
\* than not_found, the returned record is not_found with empty quote, null
\* start, end and page, confidence 0, and the supplied reasoning or else the
\* default explanation.
C4_FailureTransition ==
  (Validated /\ validateTier(claim, text) = "failed") =>
    /\ result.status = "not_found"
    /\ result.quote = <<>>
    /\ result.start = NULL
    /\ result.end = NULL
    /\ result.page = NULL
    /\ result.confidence = 0
    /\ result.reasoning = IF claim.reasoning # "" THEN claim.reasoning
                          ELSE DefaultReasoning

\* C5: a found claim whose non-blank quote shares no character with the source
\* text is returned as not_found with empty quote, null start and end and
\* confidence 0.
C5_FabricatedQuoteDemoted ==
  (/\ Validated
   /\ claim.status = "found"
   /\ NonBlankQuote(claim)
   /\ \A i \in 1..Len(claim.quote) : \A j \in 1..Len(text) : claim.quote[i] # text[j]) =>
    /\ result.status = "not_found"
    /\ result.quote = <<>>
    /\ result.start = NULL
    /\ result.end = NULL
    /\ result.confidence = 0

\* C6: a claim with status not_found, or with an empty or whitespace-only
\* quote, is returned equal to the input in every field.
C6_PassThrough ==
  (/\ Validated
   /\ \/ claim.status = "not_found"
      \/ claim.quote # NoQuote /\ Trim(claim.quote) = <<>>) =>
    result = claim

\* C6 witness: a claim that is passed through although its quote occurs in
\* the text, or although it is found with a blank quote and offsets.
C6_Witness ==
  /\ Validated
  /\ \/ claim.status = "not_found" /\ NonBlankQuote(claim) /\ OccursIn(text, claim.quote)
     \/ claim.status = "found" /\ claim.quote = <<" ">> /\ OccursIn(text, claim.quote)
  /\ result = claim

\* C7: validateExtraction never raises, whatever the claim and the text; a
\* grounding failure is returned as the not_found transition.
C7_NeverRaises ==
  /\ op = "validate" => outcome # "threw"
  /\ (Validated /\ validateTier(claim, text) = "failed") => result.status = "not_found"

\* C7 witness: a claim that is not not_found and has no quote property (the
\* operand of trim() would be undefined) has been returned.
C7_Witness ==
  /\ Validated
  /\ claim.quote = NoQuote
  /\ claim.status = "found"

\* C8 as stated: every claim whose quote occurs verbatim and whose start and
\* end are null is returned with status found, the first occurrence as start,
\* end = start + length, and quote and confidence unchanged.
C8_ExactTierAsStated ==
  (/\ Validated
   /\ claim.quote # NoQuote
   /\ OccursIn(text, claim.quote)
   /\ claim.start = NULL
   /\ claim.end = NULL) =>
    /\ result.status = "found"
    /\ result.start = SetMin({i \in 0..Len(text) : MatchesAt(text, claim.quote, i)})
    /\ result.end = result.start + Len(claim.quote)
    /\ result.quote = claim.quote
    /\ result.confidence = claim.confidence

\* C8 amended: a claim whose status is not not_found and whose non-blank quote
\* occurs verbatim, with null start and end, is returned with its status
\* unchanged (found for a found claim), the first occurrence as start,
\* end = start + length, and quote and confidence unchanged.
C8_ExactTier ==
  (/\ Validated
   /\ claim.status # "not_found"
   /\ NonBlankQuote(claim)
   /\ OccursIn(text, claim.quote)
   /\ claim.start = NULL
   /\ claim.end = NULL) =>
    /\ result.status = claim.status
    /\ result.start = SetMin({i \in 0..Len(text) : MatchesAt(text, claim.quote, i)})
    /\ result.end = result.start + Len(claim.quote)
    /\ result.quote = claim.quote
    /\ result.confidence = claim.confidence

\* C8 witness: a found quote that occurs more than once, not first at
\* offset 0, has been validated.
C8_Witness ==
  /\ Validated
  /\ claim.status = "found"
  /\ NonBlankQuote(claim)
  /\ claim.start = NULL
  /\ claim.end = NULL
  /\ Cardinality({i \in 0..Len(text) : MatchesAt(text, claim.quote, i)}) > 1
  /\ result.start > 0

\* C9 as stated: Scenario 1 yields start 0, end 27, confidence 0.9, found.
C9_Scenario1AsStated ==
  (Validated /\ text = ScenarioText /\ claim = Scenario1Claim) =>
    /\ result.start = 0
    /\ result.end = 27
    /\ result.confidence = 90
    /\ result.status = "found"

\* C9 amended: Scenario 1 yields start 0, end 26 (the length of the text),
\* confidence 0.9 and status found.
C9_Scenario1 ==
  (Validated /\ text = ScenarioText /\ claim = Scenario1Claim) =>
    /\ result.start = 0
    /\ result.end = 26
    /\ result.confidence = 90
    /\ result.status = "found"

\* C9 witness: Scenario 1 has been validated.
C9_Witness == Validated /\ text = ScenarioText /\ claim = Scenario1Claim

\* C10: a found claim whose quote does not occur verbatim but whose normalized
\* quote occurs in the normalized text is returned as found with confidence
\* lowered by at least 0.1 (floored at 0).
C10_NormalizedAccepted ==
  (/\ Validated
   /\ claim.status = "found"
   /\ NonBlankQuote(claim)
   /\ ~OccursIn(text, claim.quote)
   /\ OccursIn(normalizeWhitespace(text), normalizeWhitespace(claim.quote))) =>
    /\ result.status = "found"
    /\ result.confidence <= Max2(0, claim.confidence - 10)


\* the claim was grounded by the exact, normalized or fuzzy tier
Grounded == Validated /\ validateTier(claim, text) \in {"exact", "normalized", "fuzzy"}

\* C11: when validateExtraction grounds a claim whose page is null, the
\* returned page is not null: it is the 1-based index of the page bracket of
\* the document's page offsets that contains the returned start (or the last
\* page).  Stated for the exact tier.
C11_PageRecomputed ==
  (Grounded /\ validateTier(claim, text) = "exact" /\ claim.page = NULL) =>
    /\ result.page # NULL
    /\ \E offsets \in PageOffsetsOf(Len(text)) :
         result.page = findPageNumber(result.start, offsets)

\* C12: for a claim that is grounded although its own start or end lies
\* outside [0, text.length] or start > end, the returned offsets satisfy
\* 0 <= start <= end <= text.length.
C12_OffsetsClamped ==
  (/\ Grounded
   /\ \/ claim.start # NULL /\ claim.start > Len(text)
      \/ claim.end # NULL /\ claim.end > Len(text)
      \/ claim.start # NULL /\ claim.end # NULL /\ claim.start > claim.end) =>
    /\ 0 <= result.start
    /\ result.start <= result.end
    /\ result.end <= Len(text)


\* ------------------------------------------------------------------------
\* Properties of mergeExtractions
\* ------------------------------------------------------------------------
\* positions, in iteration order, of the found claims of a field with a
\* non-blank quote
CandidatePositions(flat, field) ==
  {i \in 1..Len(flat) :
     /\ flat[i].field = field
     /\ flat[i].status = "found"
     /\ Trim(flat[i].quote) # <<>>}

\* the first position among those with a quote of maximal length
LongestPosition(flat, positions) ==
  SetMin({i \in positions : \A j \in positions : Len(flat[i].quote) >= Len(flat[j].quote)})

C14_MergeLongestExact ==
  Merged =>
    \A i \in 1..Len(merged) :
      LET flat == Flatten(chunks)
          exact == {j \in CandidatePositions(flat, merged[i].field) :
                      OccursIn(text, flat[j].quote)}
      IN  exact # {} =>
            /\ merged[i].status = "found"
            /\ \E j \in exact :
                 /\ merged[i].quote = flat[j].quote
                 /\ \A k \in exact : Len(flat[j].quote) >= Len(flat[k].quote)

\* the orderings of the claims inside a chunk
Reordered(chunk) ==
  {[i \in 1..Len(chunk) |-> chunk[p[i]]] : p \in Permutations(1..Len(chunk))}

\* the orderings of the chunks and of the claims inside each chunk
Reorderings(allExtractions) ==
  UNION {{[i \in 1..Len(allExtractions) |-> inner[p[i]]] :
            p \in Permutations(1..Len(allExtractions))} :
         inner \in {r \in [1..Len(allExtractions) -> UNION {Reordered(allExtractions[k]) :
                                                            k \in 1..Len(allExtractions)}] :
                      \A k \in 1..Len(allExtractions) : r[k] \in Reordered(allExtractions[k])}}

\* C15: the record output for a field is the same for every ordering of the
\* chunks and of the claims inside each chunk.
C15_MergeDeterminism ==
  Merged =>
    \A reordering \in Reorderings(chunks) :
      \A i \in 1..Len(merged) :
        mergeField(Flatten(reordering), merged[i].field, text, pages) = merged[i]

\* C16: the output has exactly one record per distinct field name of the
\* input, in the order in which the field names are first encountered.
C16_MergeShape ==
  Merged =>
    LET flat == Flatten(chunks)
        names == {flat[i].field : i \in 1..Len(flat)}
        first(f) == SetMin({i \in 1..Len(flat) : flat[i].field = f})
    IN  /\ Len(merged) = Cardinality(names)
        /\ {merged[i].field : i \in 1..Len(merged)} = names
        /\ \A i, j \in 1..Len(merged) :
             i < j => first(merged[i].field) < first(merged[j].field)

\* C16 witness: two claims of one field, or two fields first seen in the
\* order G, F, have been merged.
C16_Witness ==
  /\ Merged
  /\ Len(Flatten(chunks)) > 1
  /\ \/ Len(merged) = 1
     \/ Len(merged) > 1 /\ merged[1].field = "G" /\ merged[2].field = "F"

\* C26: every found record of the merge has quote = substring(start, end) of
\* the full text, start the first occurrence of the selected candidate's
\* quote, end = start + length, page = findPageNumber(start) from the page
\* offsets, and the selected candidate's confidence; the page, start and end
\* claimed by the chunk are not used.
C26_MergeGrounded ==
  Merged =>
    \A i \in 1..Len(merged) :
      merged[i].status = "found" =>
        LET flat == Flatten(chunks)
            positions == CandidatePositions(flat, merged[i].field)
            selected == flat[LongestPosition(flat, positions)]
        IN  /\ merged[i].start >= 0
            /\ merged[i].end <= Len(text)
            /\ SubSeq(text, merged[i].start + 1, merged[i].end) = merged[i].quote
            /\ merged[i].quote = selected.quote
            /\ \A k \in 0..(merged[i].start - 1) : ~MatchesAt(text, selected.quote, k)
            /\ merged[i].end = merged[i].start + Len(merged[i].quote)
            /\ merged[i].page = findPageNumber(merged[i].start, pages)
            /\ merged[i].confidence = selected.confidence

\* C26 witness: a candidate that claimed page 9 and the span [5, 6) has been
\* merged to found at the second of two pages, where its quote occurs.
C26_Witness ==
  /\ Merged
  /\ \E i \in 1..Len(merged) :
       /\ merged[i].status = "found"
       /\ merged[i].quote = <<"b">>
       /\ merged[i].start = 1
       /\ merged[i].end = 2
       /\ merged[i].page = 2
       /\ merged[i].confidence = 20

\* ------------------------------------------------------------------------
\* findPageNumber on its own
\* ------------------------------------------------------------------------
MaxPageOffset == 3
MaxPagesLen == 3

\* the validate and merge variables while another function is called
NoValidateOrMerge ==
  /\ text = <<>>
  /\ claim = Scenario1Claim
  /\ result = claim
  /\ chunks = <<>>
  /\ pages = <<>>
  /\ merged = <<>>

\* any array of offsets, also one that is empty, unsorted or not starting at 0
OffsetArrays == UNION {[1..n -> 0..MaxPageOffset] : n \in 0..MaxPagesLen}

InitPage ==
  /\ op = "page"
  /\ outcome = "pending"
  /\ input \in [offset : 0..MaxPageOffset, pages : OffsetArrays]
  /\ output = Unused
  /\ proc = Unused
  /\ NoValidateOrMerge

\* one call of findPageNumber(input.offset, input.pages)
FindPage ==
  /\ op = "page"
  /\ outcome = "pending"
  /\ outcome' = "returned"
  /\ output' = findPageNumber(input.offset, input.pages)
  /\ UNCHANGED <<op, text, claim, result, chunks, pages, merged, input, proc>>

NextPage == FindPage

SpecPage == InitPage /\ [][NextPage]_vars

Paged == op = "page" /\ outcome = "returned"

\* first element 0, non-decreasing; the last element is the text length
DocumentInvariant(offsets) ==
  /\ Len(offsets) >= 2
  /\ offsets[1] = 0
  /\ \A i \in 1..(Len(offsets) - 1) : offsets[i] <= offsets[i + 1]

\* the 1-based pages whose bracket contains the offset
BracketsOf(offset, offsets) ==
  {p \in 1..(Len(offsets) - 1) : offsets[p] <= offset /\ offset < offsets[p + 1]}

\* C17: for offsets satisfying the document invariant and a start before the
\* text length the returned page's bracket contains the start; a start inside
\* no bracket gets the last page (at least 1); the result is always in
\* 1..max(1, length - 1), for every array of offsets.
C17_PageBracketCoverage ==
  Paged =>
    LET start == input.offset
        offsets == input.pages
    IN  /\ (DocumentInvariant(offsets) /\ start < offsets[Len(offsets)]) =>
             output \in BracketsOf(start, offsets)
        /\ BracketsOf(start, offsets) = {} => output = Max2(1, Len(offsets) - 1)
        /\ output \in 1..Max2(1, Len(offsets) - 1)

\* C17 witness: three valid offsets and a start on the boundary of the second
\* page, which is the page returned.
C17_Witness ==
  /\ Paged
  /\ DocumentInvariant(input.pages)
  /\ Len(input.pages) = 3
  /\ input.offset = input.pages[2]
  /\ input.offset < input.pages[3]
  /\ output = 2

\* ------------------------------------------------------------------------
\* chunk.ts: generateValidationReport
\* ------------------------------------------------------------------------
MaxReportLen == 3

\* mutant: a validated not_found is counted whatever the original status was
RECURSIVE reportLoopAnyOriginal(_, _, _, _)
reportLoopAnyOriginal(originalExtractions, validatedExtractions, i, acc) ==
  IF i > Len(originalExtractions) THEN acc
  ELSE LET original == originalExtractions[i]
           validated == validatedExtractions[i]
       IN  IF validated.status = "not_found"
           THEN reportLoopAnyOriginal(originalExtractions, validatedExtractions, i + 1,
                  [invalidCount |-> acc.invalidCount + 1,
                   invalidFields |-> Append(acc.invalidFields, original.field)])
           ELSE reportLoopAnyOriginal(originalExtractions, validatedExtractions, i + 1, acc)

\* the for loop of generateValidationReport from index i on (1-based here)
RECURSIVE reportLoop(_, _, _, _)
reportLoop(originalExtractions, validatedExtractions, i, acc) ==
  IF i > Len(originalExtractions) THEN acc
  ELSE LET original == originalExtractions[i]
           validated == validatedExtractions[i]
       IN  IF original.status = "found" /\ validated.status = "not_found"
           THEN reportLoop(originalExtractions, validatedExtractions, i + 1,
                  [invalidCount |-> acc.invalidCount + 1,
                   invalidFields |-> Append(acc.invalidFields, original.field)])
           ELSE reportLoop(originalExtractions, validatedExtractions, i + 1, acc)

generateValidationReport(originalExtractions, validatedExtractions) ==
  LET counted == reportLoop(originalExtractions, validatedExtractions, 1,
                            [invalidCount |-> 0, invalidFields |-> <<>>])
  IN  [totalExtractions |-> Len(originalExtractions),
       validCount |-> Len(originalExtractions) - counted.invalidCount,
       invalidCount |-> counted.invalidCount,
       invalidFields |-> counted.invalidFields]

\* the fields of a claim the report reads
ReportClaims == [field : {"F", "G"}, status : Statuses]

\* two lists of length n; validation keeps the field name of a claim
ReportInputs(n) ==
  {[original |-> o,
    validated |-> [i \in 1..n |-> [field |-> o[i].field, status |-> st[i]]]] :
     o \in [1..n -> ReportClaims], st \in [1..n -> Statuses]}

InitReport ==
  /\ op = "report"
  /\ outcome = "pending"
  /\ \E n \in 0..MaxReportLen : input \in ReportInputs(n)
  /\ output = Unused
  /\ proc = Unused
  /\ NoValidateOrMerge

\* one call of generateValidationReport(input.original, input.validated)
Report ==
  /\ op = "report"
  /\ outcome = "pending"
  /\ outcome' = "returned"
  /\ output' = generateValidationReport(input.original, input.validated)
  /\ UNCHANGED <<op, text, claim, result, chunks, pages, merged, input, proc>>

NextReport == Report

SpecReport == InitReport /\ [][NextReport]_vars

Reported == op = "report" /\ outcome = "returned"

\* the indices at which a found original was validated to not_found
InvalidIndices ==
  {i \in 1..Len(input.original) :
     input.original[i].status = "found" /\ input.validated[i].status = "not_found"}

\* C18: totalExtractions is the length of the original list, invalidCount the
\* number of indices where the original is found and the validated claim is
\* not_found, validCount = totalExtractions - invalidCount, and invalidFields
\* the field names at exactly those indices in increasing index order.
C18_ValidationReport ==
  Reported =>
    /\ output.totalExtractions = Len(input.original)
    /\ output.invalidCount = Cardinality(InvalidIndices)
    /\ output.validCount = output.totalExtractions - output.invalidCount
    /\ Len(output.invalidFields) = Cardinality(InvalidIndices)
    /\ \E at \in [1..Cardinality(InvalidIndices) -> InvalidIndices] :
         /\ \A j, k \in DOMAIN at : j < k => at[j] < at[k]
         /\ \A j \in DOMAIN at : output.invalidFields[j] = input.original[at[j]].field

\* C18 witness: a found original validated to not_found is reported next to an
\* inferred and a not_found original whose validated claim is not_found too.
C18_Witness ==
  /\ Reported
  /\ Len(input.original) = 3
  /\ input.original[1].status = "inferred" /\ input.validated[1].status = "not_found"
  /\ input.original[2].status = "found" /\ input.validated[2].status = "not_found"
  /\ input.original[3].status = "not_found" /\ input.validated[3].status = "not_found"
  /\ output.invalidCount = 1
  /\ output.validCount = 2
  /\ output.invalidFields = <<input.original[2].field>>

\* ------------------------------------------------------------------------
\* normalizeWhitespace on its own
\* ------------------------------------------------------------------------
MaxNormLen == 5

\* strings of letters, spaces and newlines
NormInputs == UNION {[1..k -> {"a", "b", " ", "\n"}] : k \in 0..MaxNormLen}

InitNormalize ==
  /\ op = "normalize"
  /\ outcome = "pending"
  /\ input \in NormInputs
  /\ output = Unused
  /\ proc = Unused
  /\ NoValidateOrMerge

\* one call of normalizeWhitespace(input)
Normalize ==
  /\ op = "normalize"
  /\ outcome = "pending"
  /\ outcome' = "returned"
  /\ output' = normalizeWhitespace(input)
  /\ UNCHANGED <<op, text, claim, result, chunks, pages, merged, input, proc>>

NextNormalize == Normalize

SpecNormalize == InitNormalize /\ [][NextNormalize]_vars

Normalized == op = "normalize" /\ outcome = "returned"

\* the maximal runs of non-whitespace characters of s, in order
RECURSIVE WordsOf(_, _)
WordsOf(s, word) ==
  IF s = <<>> THEN (IF word = <<>> THEN <<>> ELSE <<word>>)
  ELSE IF Head(s) \in Whitespace
       THEN (IF word = <<>> THEN <<>> ELSE <<word>>) \o WordsOf(Tail(s), <<>>)
       ELSE WordsOf(Tail(s), Append(word, Head(s)))

\* the words separated by one space each
RECURSIVE JoinWithSpace(_)
JoinWithSpace(words) ==
  IF words = <<>> THEN <<>>
  ELSE IF Len(words) = 1 THEN words[1]
  ELSE words[1] \o <<" ">> \o JoinWithSpace(Tail(words))

\* C19: normalizeWhitespace is idempotent; its result has no leading or
\* trailing whitespace and no two adjacent whitespace characters, and every
\* maximal whitespace run between words has become a single space.
C19_NormalizeCanonical ==
  Normalized =>
    /\ normalizeWhitespace(output) = output
    /\ output # <<>> => output[1] \notin Whitespace /\ output[Len(output)] \notin Whitespace
    /\ \A i \in 1..(Len(output) - 1) :
         ~(output[i] \in Whitespace /\ output[i + 1] \in Whitespace)
    /\ output = JoinWithSpace(WordsOf(input, <<>>))

\* C19 witness: a string with leading whitespace and a run of two or more
\* whitespace characters, one of them a newline, between two words has been
\* normalized to the two words and one space.
C19_Witness ==
  /\ Normalized
  /\ Len(input) = 5
  /\ input[1] \in Whitespace
  /\ input[2] \notin Whitespace
  /\ input[3] = "\n"
  /\ input[4] = " "
  /\ input[5] \notin Whitespace
  /\ output = <<input[2], " ", input[5]>>

\* ------------------------------------------------------------------------
\* docx.ts: parseDOCX and parsePDF, from the extracted text on
\* ------------------------------------------------------------------------
MaxDocLen == 4
MaxNumPages == 3

\* fullText.length above which parsePDF throws
PdfTextLimit == 500000

\* the extracted text: letters and form feeds
DocTexts == UNION {[1..k -> {"a", "\f"}] : k \in 0..MaxDocLen}

\* fullText.includes('\f')
IncludesFormFeed(fullText) == \E i \in 1..Len(fullText) : fullText[i] = "\f"

\* the offsets pushed by the form-feed loop from 0-based index i on
RECURSIVE FormFeedOffsets(_, _)
FormFeedOffsets(fullText, i) ==
  IF i >= Len(fullText) THEN <<>>
  ELSE IF fullText[i + 1] = "\f" THEN <<i + 1>> \o FormFeedOffsets(fullText, i + 1)
  ELSE FormFeedOffsets(fullText, i + 1)

\* Math.ceil(length / pageCount) for pageCount >= 1
CharsPerPage(length, pageCount) == (length + pageCount - 1) \div pageCount

\* the offsets pushed by the fallback loop: i * charsPerPage for i = 0..pageCount
EvenOffsets(length, pageCount) ==
  [k \in 1..(pageCount + 1) |-> (k - 1) * CharsPerPage(length, pageCount)]

pdfPageOffsets(fullText, pageCount) ==
  IF IncludesFormFeed(fullText) THEN <<0>> \o FormFeedOffsets(fullText, 0)
  ELSE EvenOffsets(Len(fullText), pageCount)

\* pageOffsets.length - 1 || 1
PdfPageCount(pageOffsets) ==
  IF Len(pageOffsets) - 1 = 0 THEN 1 ELSE Len(pageOffsets) - 1

parsePDF(fullText, pageCount) ==
  LET pageOffsets == pdfPageOffsets(fullText, pageCount)
  IN  [pages |-> pageOffsets, text |-> fullText, pageCount |-> PdfPageCount(pageOffsets)]

parseDOCX(fullText) ==
  [pages |-> <<0, Len(fullText)>>, text |-> fullText, pageCount |-> NULL]

InitParse ==
  /\ op = "parse"
  /\ outcome = "pending"
  /\ \/ input \in [kind : {"pdf"}, text : DocTexts, numpages : 1..MaxNumPages]
     \/ input \in [kind : {"docx"}, text : DocTexts]
  /\ output = Unused
  /\ proc = Unused
  /\ NoValidateOrMerge

\* one call of parsePDF on a buffer with the text and page count of input
ParsePDF ==
  /\ op = "parse"
  /\ outcome = "pending"
  /\ input.kind = "pdf"
  /\ IF Len(input.text) > PdfTextLimit
     THEN outcome' = "threw" /\ output' = output
     ELSE outcome' = "returned" /\ output' = parsePDF(input.text, input.numpages)
  /\ UNCHANGED <<op, text, claim, result, chunks, pages, merged, input, proc>>

\* one call of parseDOCX on a buffer with the text of input
ParseDOCX ==
  /\ op = "parse"
  /\ outcome = "pending"
  /\ input.kind = "docx"
  /\ outcome' = "returned"
  /\ output' = parseDOCX(input.text)
  /\ UNCHANGED <<op, text, claim, result, chunks, pages, merged, input, proc>>

NextParse == ParsePDF \/ ParseDOCX

SpecParse == InitParse /\ [][NextParse]_vars

Parsed == op = "parse" /\ outcome = "returned"

\* C20: the page offsets of every parsed document start with 0, are
\* non-decreasing and end with the length of the text; a DOCX has exactly
\* the offsets [0, text.length].
C20_ProviderInvariant ==
  Parsed =>
    /\ Len(output.pages) >= 1
    /\ output.pages[1] = 0
    /\ \A i \in 1..(Len(output.pages) - 1) : output.pages[i] <= output.pages[i + 1]
    /\ output.pages[Len(output.pages)] = Len(output.text)
    /\ input.kind = "docx" => output.pages = <<0, Len(output.text)>>

\* ------------------------------------------------------------------------
\* batch-extract.ts: batchedExtract; extract.ts: extractFromDocument
\* ------------------------------------------------------------------------
MaxBatchFields == 3
MaxBatchSize == 2
MaxChunkCalls == 3

\* field names; two of them have the same key
FieldNames == {<<"T", "a", "x">>, <<"t", "a", "x">>, <<"F", "e", "e", "-", "s">>}

\* String.prototype.toLowerCase on the capital letters that occur in field names
ToLowerCase(s) ==
  [i \in 1..Len(s) |->
     CASE s[i] = "T" -> "t"
       [] s[i] = "F" -> "f"
       [] s[i] = "S" -> "s"
       [] s[i] = "N" -> "n"
       [] OTHER -> s[i]]

\* replace(/[^a-z0-9]+/g, '_')
RECURSIVE ReplaceNonAlnumRuns(_)
ReplaceNonAlnumRuns(s) ==
  IF s = <<>> THEN <<>>
  ELSE IF Head(s) \in {"a", "e", "f", "s", "t", "x"}
       THEN <<Head(s)>> \o ReplaceNonAlnumRuns(Tail(s))
       ELSE IF Len(s) > 1 /\ s[2] \notin {"a", "e", "f", "s", "t", "x"}
            THEN ReplaceNonAlnumRuns(Tail(s))
            ELSE <<"_">> \o ReplaceNonAlnumRuns(Tail(s))

\* field.name.toLowerCase().replace(/[^a-z0-9]+/g, '_')
fieldKey(field) == ReplaceNonAlnumRuns(ToLowerCase(field.name))

\* the for loop that slices the fields into batches
Batches(fields, batchSize) ==
  [k \in 1..((Len(fields) + batchSize - 1) \div batchSize) |->
     SubSeq(fields, (k - 1) * batchSize + 1, Min2(k * batchSize, Len(fields)))]

\* parsed.extractions[fieldKey] is undefined
Missing == [status |-> "undefined", quote |-> <<>>, page |-> 0, relevance |-> ""]

\* the values of one key in a parsed response
ResponseEntries ==
  {Missing,
   [status |-> "found", quote |-> <<"q">>, page |-> 2, relevance |-> "high"],
   [status |-> "found", quote |-> <<>>, page |-> 0, relevance |-> ""],
   [status |-> "not_found", quote |-> <<>>, page |-> 0, relevance |-> "low"]}

\* the parsed responses the model can give for a batch
ResponsesFor(batch) ==
  [{fieldKey(batch[k]) : k \in 1..Len(batch)} -> ResponseEntries]

\* the record pushed for a field that failed or is missing from the response
BatchNotFound(field) ==
  [field |-> field.name, status |-> "not_found", quote |-> <<>>, page |-> 0,
   relevance |-> "low"]

\* extractBatch: the conversion of a parsed response for the fields of a batch
BatchConverted(batch, parsed) ==
  [k \in 1..Len(batch) |->
     LET res == parsed[fieldKey(batch[k])]
     IN  IF res # Missing
         THEN [field |-> batch[k].name, status |-> res.status, quote |-> res.quote,
               page |-> res.page,
               relevance |-> IF res.relevance = "" THEN "medium" ELSE res.relevance]
         ELSE BatchNotFound(batch[k])]

\* mutant: the catch block pushes nothing for the fields of a failed batch
BatchFailureRecordsNone(batch) == <<>>

\* the catch block of batchedExtract: not_found for every field of the batch
BatchFailureRecords(batch) == [k \in 1..Len(batch) |-> BatchNotFound(batch[k])]

\* lists of fields to extract
FieldLists == UNION {[1..n -> [name : FieldNames]] : n \in 0..MaxBatchFields}

\* local state at the start of either loop
LoopStart ==
  [pc |-> "loop", i |-> 0, inFlight |-> 0, calls |-> 0, delayed |-> FALSE,
   gap |-> "none", log |-> <<>>, results |-> <<>>]

InitCalls ==
  /\ op = "calls"
  /\ outcome = "pending"
  /\ \/ input \in [kind : {"batches"}, fields : FieldLists, batchSize : 1..MaxBatchSize]
     \/ input \in [kind : {"chunks"}, chunkCount : 1..MaxChunkCalls]
  /\ output = Unused
  /\ proc = LoopStart
  /\ NoValidateOrMerge

\* how the call that starts now is separated from the call before it
GapBefore == IF proc.calls = 0 THEN "first" ELSE IF proc.delayed THEN "delayed" ELSE "undelayed"

\* batchedExtract: extractBatch sends the request of batch i + 1
BatchCall ==
  /\ op = "calls" /\ input.kind = "batches" /\ proc.pc = "loop"
  /\ proc.i < Len(Batches(input.fields, input.batchSize))
  /\ proc' = [proc EXCEPT !.pc = "calling", !.inFlight = @ + 1, !.calls = @ + 1,
                          !.gap = GapBefore, !.delayed = FALSE]
  /\ UNCHANGED <<op, outcome, text, claim, result, chunks, pages, merged, input, output>>

\* batchedExtract: the request is answered with content that parses
BatchResponds ==
  /\ op = "calls" /\ input.kind = "batches" /\ proc.pc = "calling"
  /\ LET batches == Batches(input.fields, input.batchSize)
         batch == batches[proc.i + 1]
     IN  \E parsed \in ResponsesFor(batch) :
           proc' = [proc EXCEPT
                      !.inFlight = @ - 1,
                      !.log = Append(@, [ok |-> TRUE, parsed |-> parsed]),
                      !.results = @ \o BatchConverted(batch, parsed),
                      !.pc = IF proc.i < Len(batches) - 1 THEN "delay" ELSE "loop",
                      !.i = IF proc.i < Len(batches) - 1 THEN @ ELSE @ + 1]
  /\ UNCHANGED <<op, outcome, text, claim, result, chunks, pages, merged, input, output>>

\* batchedExtract: the 500 ms timer after a successful batch that is not the last
BatchDelay ==
  /\ op = "calls" /\ input.kind = "batches" /\ proc.pc = "delay"
  /\ proc' = [proc EXCEPT !.pc = "loop", !.delayed = TRUE, !.i = @ + 1]
  /\ UNCHANGED <<op, outcome, text, claim, result, chunks, pages, merged, input, output>>

\* batchedExtract: the request fails, has no content, or its content does not
\* parse; the catch block runs
BatchFails ==
  /\ op = "calls" /\ input.kind = "batches" /\ proc.pc = "calling"
  /\ LET batch == Batches(input.fields, input.batchSize)[proc.i + 1]
     IN  proc' = [proc EXCEPT
                    !.inFlight = @ - 1,
                    !.log = Append(@, [ok |-> FALSE, parsed |-> <<>>]),
                    !.results = @ \o BatchFailureRecords(batch),
                    !.pc = "loop",
                    !.i = @ + 1]
  /\ UNCHANGED <<op, outcome, text, claim, result, chunks, pages, merged, input, output>>

\* batchedExtract: the loop is over
BatchReturn ==
  /\ op = "calls" /\ input.kind = "batches" /\ proc.pc = "loop"
  /\ proc.i >= Len(Batches(input.fields, input.batchSize))
  /\ outcome = "pending"
  /\ outcome' = "returned"
  /\ output' = [extractions |-> proc.results]
  /\ proc' = [proc EXCEPT !.pc = "done"]
  /\ UNCHANGED <<op, text, claim, result, chunks, pages, merged, input>>

\* extractFromDocument: extractFromChunk sends the request of chunk i + 1
ChunkCall ==
  /\ op = "calls" /\ input.kind = "chunks" /\ proc.pc = "loop"
  /\ proc.i < input.chunkCount
  /\ proc' = [proc EXCEPT !.pc = "calling", !.inFlight = @ + 1, !.calls = @ + 1,
                          !.gap = GapBefore, !.delayed = FALSE]
  /\ UNCHANGED <<op, outcome, text, claim, result, chunks, pages, merged, input, output>>

\* extractFromDocument: the request is answered; its extractions are pushed
ChunkResponds ==
  /\ op = "calls" /\ input.kind = "chunks" /\ proc.pc = "calling"
  /\ proc' = [proc EXCEPT !.inFlight = @ - 1,
                          !.log = Append(@, [ok |-> TRUE, parsed |-> <<>>]),
                          !.results = Append(@, proc.i + 1),
                          !.pc = "loop",
                          !.i = @ + 1]
  /\ UNCHANGED <<op, outcome, text, claim, result, chunks, pages, merged, input, output>>

\* extractFromDocument: extractFromChunk rethrows and nothing catches it
ChunkFails ==
  /\ op = "calls" /\ input.kind = "chunks" /\ proc.pc = "calling"
  /\ outcome' = "threw"
  /\ proc' = [proc EXCEPT !.inFlight = @ - 1,
                          !.log = Append(@, [ok |-> FALSE, parsed |-> <<>>]),
                          !.pc = "done"]
  /\ UNCHANGED <<op, text, claim, result, chunks, pages, merged, input, output>>

\* extractFromDocument: the loop is over
ChunkReturn ==
  /\ op = "calls" /\ input.kind = "chunks" /\ proc.pc = "loop"
  /\ proc.i >= input.chunkCount
  /\ outcome = "pending"
  /\ outcome' = "returned"
  /\ output' = [extractions |-> proc.results]
  /\ proc' = [proc EXCEPT !.pc = "done"]
  /\ UNCHANGED <<op, text, claim, result, chunks, pages, merged, input>>

NextCalls ==
  \/ BatchCall \/ BatchResponds \/ BatchDelay \/ BatchFails \/ BatchReturn
  \/ ChunkCall \/ ChunkResponds \/ ChunkFails \/ ChunkReturn

SpecCalls == InitCalls /\ [][NextCalls]_vars

\* C21: at most one call is in flight at any time, and a call that is not the
\* first of its loop starts only after a delay that followed the call before
\* it, also when that call failed.
C21_SequencedWithDelay ==
  op = "calls" =>
    /\ proc.inFlight <= 1
    /\ proc.gap # "undelayed"

BatchReturned == op = "calls" /\ input.kind = "batches" /\ outcome = "returned"

\* C28: batchedExtract returns one record per requested field, in the order
\* of the fields and with the field's name; every batch has been called; the
\* fields of a failed batch and the fields missing from a response are
\* not_found with an empty quote.
C28_OneRecordPerField ==
  BatchReturned =>
    /\ Len(output.extractions) = Len(input.fields)
    /\ Len(proc.log) = Len(Batches(input.fields, input.batchSize))
    /\ \A j \in 1..Len(input.fields) :
         LET b == ((j - 1) \div input.batchSize) + 1
             key == fieldKey(input.fields[j])
         IN  /\ output.extractions[j].field = input.fields[j].name
             /\ (~proc.log[b].ok \/ proc.log[b].parsed[key] = Missing) =>
                  /\ output.extractions[j].status = "not_found"
                  /\ output.extractions[j].quote = <<>>

\* C28 witness: the first batch failed, a later batch was answered with a
\* found field, and all fields are in the result.
C28_Witness ==
  /\ BatchReturned
  /\ Len(proc.log) > 1
  /\ ~proc.log[1].ok
  /\ proc.log[Len(proc.log)].ok
  /\ output.extractions[1].status = "not_found"
  /\ output.extractions[Len(input.fields)].status = "found"
  /\ Len(output.extractions) = Len(input.fields)

\* ------------------------------------------------------------------------
\* chunk.ts: chunkText
\* ------------------------------------------------------------------------
CHUNK_SIZE == 25000
OVERLAP_SIZE == 1000

\* the width of the window before chunkEnd in which a paragraph break is used
ParagraphWindow == 500

MaxExtraLength == 30
MaxChunks == 5

\* A text is represented by what chunkText reads of it: its length, the
\* indices at which '--- PAGE' occurs and the indices at which '\n\n' occurs.
ChunkTextLengths ==
  {0, 1, CHUNK_SIZE} \cup {CHUNK_SIZE + 1 + k * OVERLAP_SIZE : k \in 0..MaxExtraLength}

ChunkTexts ==
  {t \in [length : ChunkTextLengths,
          pageMarkers : SUBSET {20000, CHUNK_SIZE},
          paragraphs : SUBSET {24600, CHUNK_SIZE}] :
     /\ \A p \in t.pageMarkers : p + 8 <= t.length
     /\ \A p \in t.paragraphs : p + 2 <= t.length}

\* String.prototype.lastIndexOf(pattern, fromIndex) over the occurrences of
\* the pattern: the last occurrence starting at or before fromIndex, else -1
LastIndexOf(occurrences, fromIndex) ==
  LET before == {p \in occurrences : p <= fromIndex}
  IN  IF before = {} THEN -1 ELSE CHOOSE p \in before : \A q \in before : q <= p

\* the end of the chunk that starts at offset
chunkEndOf(t, offset) ==
  LET chunkEnd == Min2(offset + CHUNK_SIZE, t.length)
      pageMarkerPos == LastIndexOf(t.pageMarkers, chunkEnd)
      lastNewline == LastIndexOf(t.paragraphs, chunkEnd)
  IN  IF chunkEnd < t.length
      THEN IF pageMarkerPos > offset /\ pageMarkerPos * 10 > chunkEnd * 10 - CHUNK_SIZE * 3
           THEN pageMarkerPos
           ELSE IF lastNewline > offset /\ lastNewline > chunkEnd - ParagraphWindow
                THEN lastNewline + 2
                ELSE chunkEnd
      ELSE chunkEnd

\* text.slice(from, to) for 0 <= from, as the number of characters it returns
SliceLength(t, from, to) == Max2(0, Min2(to, t.length) - Min2(from, t.length))

\* the chunk pushed for the span [offset, chunkEnd)
ChunkOf(t, offset, chunkEnd) ==
  [textLength |-> SliceLength(t, offset, chunkEnd),
   startOffset |-> offset, endOffset |-> chunkEnd]

InitChunk ==
  /\ op = "chunk"
  /\ outcome = "pending"
  /\ input \in ChunkTexts
  /\ output = Unused
  /\ proc = [pc |-> "start", offset |-> 0, chunks |-> <<>>]
  /\ NoValidateOrMerge

\* chunkText of a text of at most CHUNK_SIZE characters: one chunk, returned
ChunkTextShort ==
  /\ op = "chunk" /\ proc.pc = "start"
  /\ input.length <= CHUNK_SIZE
  /\ outcome' = "returned"
  /\ output' = <<ChunkOf(input, 0, input.length)>>
  /\ proc' = [proc EXCEPT !.pc = "done", !.chunks = output']
  /\ UNCHANGED <<op, text, claim, result, chunks, pages, merged, input>>

\* one iteration of the while loop, with the break test at its end; the
\* number of chunks kept in the model is capped at MaxChunks
ChunkTextIterate ==
  /\ op = "chunk" /\ proc.pc \in {"start", "while"}
  /\ input.length > CHUNK_SIZE
  /\ proc.offset < input.length
  /\ Len(proc.chunks) < MaxChunks
  /\ LET chunkEnd == chunkEndOf(input, proc.offset)
         pushed == Append(proc.chunks, ChunkOf(input, proc.offset, chunkEnd))
         offset == chunkEnd - OVERLAP_SIZE
     IN  IF offset >= input.length
         THEN /\ outcome' = "returned"
              /\ output' = pushed
              /\ proc' = [pc |-> "done", offset |-> offset, chunks |-> pushed]
         ELSE /\ UNCHANGED <<outcome, output>>
              /\ proc' = [pc |-> "while", offset |-> offset, chunks |-> pushed]
  /\ UNCHANGED <<op, text, claim, result, chunks, pages, merged, input>>

NextChunk == ChunkTextShort \/ ChunkTextIterate

SpecChunk == InitChunk /\ [][NextChunk]_vars

\* C22: the first chunk starts at 0; every chunk's text is the slice
\* [startOffset, endOffset) of the text and at most 25000 characters long;
\* every later chunk starts 1000 characters before the end of the one before
\* it; the returned list ends at text.length and is a single chunk
\* [0, text.length) for a text of at most 25000 characters.
C22_ChunkLayout ==
  op = "chunk" =>
    /\ proc.chunks # <<>> => proc.chunks[1].startOffset = 0
    /\ \A k \in 1..Len(proc.chunks) :
         /\ proc.chunks[k].textLength = proc.chunks[k].endOffset - proc.chunks[k].startOffset
         /\ proc.chunks[k].textLength <= 25000
    /\ \A k \in 2..Len(proc.chunks) :
         proc.chunks[k].startOffset = proc.chunks[k - 1].endOffset - 1000
    /\ outcome = "returned" =>
         /\ output # <<>>
         /\ output[Len(output)].endOffset = input.length
         /\ input.length <= 25000 => Len(output) = 1

\* C23: the start offset strictly increases from one chunk to the next, and
\* no chunk is produced after the chunk that ends at text.length.
C23_ChunkTextTerminates ==
  op = "chunk" =>
    \A k \in 2..Len(proc.chunks) :
      /\ proc.chunks[k].startOffset > proc.chunks[k - 1].startOffset
      /\ proc.chunks[k - 1].endOffset < input.length

\* ------------------------------------------------------------------------
\* validateExtraction on longer texts: the normalized and the fuzzy tier
\* ------------------------------------------------------------------------
MaxTierTextLen == 6
MaxTierQuoteLen == 3

TierTexts == StringsUpTo(MaxTierTextLen)

\* quotes of seven characters, long enough for anchors of two characters
AnchoredQuotes ==
  {p \o <<"b", "a", "b">> \o q : p \in [1..2 -> {"a", "b"}], q \in [1..2 -> {"a", "b"}]}

\* a found claim without offsets
TierClaim(q, c) ==
  [field |-> "F", status |-> "found", quote |-> q, reasoning |-> "",
   page |-> NULL, start |-> NULL, end |-> NULL, confidence |-> c]

TierClaims ==
  {TierClaim(q, 90) : q \in StringsUpTo(MaxTierQuoteLen)}
    \cup {TierClaim(q, c) : q \in AnchoredQuotes, c \in Confidences}

InitTiers ==
  /\ op = "validate"
  /\ outcome = "pending"
  /\ text \in TierTexts
  /\ claim \in TierClaims
  /\ result = claim
  /\ chunks = <<>>
  /\ pages = <<>>
  /\ merged = <<>>
  /\ input = Unused
  /\ output = Unused
  /\ proc = Unused

NextTiers == Validate

SpecTiers == InitTiers /\ [][NextTiers]_vars

FuzzyAccepted == Validated /\ validateTier(claim, text) = "fuzzy"

NormalizedAccepted == Validated /\ validateTier(claim, text) = "normalized"

\* the index in the normalized text of the non-whitespace character at
\* offset i of the text
NormalizedIndexAt(fullText, i) ==
  LET before == normalizeWhitespace(SubSeq(fullText, 1, i))
  IN  IF before # <<>> /\ fullText[i] \in Whitespace THEN Len(before) + 1 ELSE Len(before)

\* C25: when the normalized tier accepts, the returned start is the offset in
\* the original text of the character at which the normalized quote matches
\* the normalized text.
C25_NormalizedStart ==
  NormalizedAccepted =>
    /\ result.start < Len(text)
    /\ text[result.start + 1] \notin Whitespace
    /\ NormalizedIndexAt(text, result.start) =
         IndexOf(normalizeWhitespace(text), normalizeWhitespace(claim.quote))

\* C27: validating the result of a validation again changes no field.
C27_ValidateIdempotent ==
  Validated =>
    /\ ~validateRaises(result)
    /\ validateExtraction(result, text) = result

\* C27 witness: a claim accepted by the normalized or the fuzzy tier with a
\* lowered confidence and a replaced quote is left as it is by a second pass.
C27_Witness ==
  /\ Validated
  /\ validateTier(claim, text) \in {"normalized", "fuzzy"}
  /\ result.quote # claim.quote
  /\ result.quote # <<>>
  /\ result.confidence < claim.confidence
  /\ validateTier(result, text) = "exact"
  /\ validateExtraction(result, text) = result

\* ------------------------------------------------------------------------
\* api/extract/route.ts: the POST handler
\* ------------------------------------------------------------------------
MaxRouteFields == 2

\* file.name of the upload
UploadName == <<"a", ".", "p", "d", "f">>

SourceFileField == <<"S", "o", "u", "r", "c", "e", " ", "F", "i", "l", "e">>
FileNameField == <<"F", "i", "l", "e", " ", "N", "a", "m", "e">>
TaxField == <<"T", "a", "x">>

\* custom field lists of the request (both non-matching branches of the
\* auto-populate loop push the field, so the description is left out)
RouteFieldLists ==
  UNION {[1..n -> [name : {SourceFileField, FileNameField, TaxField}]] :
         n \in 0..MaxRouteFields}

\* texts of the parsed document: empty, unrelated, the file name itself, and
\* one with the first and the last character of the file name
RouteTexts == {<<>>, <<"a", "b">>, UploadName, <<"a", "f">>}

\* fieldNameLower.includes('source file') || fieldNameLower.includes('file name')
IsAutoField(field) ==
  LET fieldNameLower == ToLowerCase(field.name)
  IN  \/ IndexOf(fieldNameLower, ToLowerCase(SourceFileField)) # -1
      \/ IndexOf(fieldNameLower, ToLowerCase(FileNameField)) # -1

\* the record pushed to autoExtractions
AutoExtraction(field, fileName) ==
  [field |-> field.name, status |-> "found", quote |-> fileName,
   reasoning |-> "Automatically extracted from uploaded filename",
   page |-> NULL, start |-> NULL, end |-> NULL, confidence |-> 100]

\* the auto-populate loop: autoExtractions and fieldsNeedingExtraction
autoExtractions(fields, fileName) ==
  LET auto == SelectSeq(fields, IsAutoField)
  IN  [i \in 1..Len(auto) |-> AutoExtraction(auto[i], fileName)]

fieldsNeedingExtraction(fields) == SelectSeq(fields, LAMBDA f : ~IsAutoField(f))

\* the not_found records built for every field needing extraction
EmptyExtractions(needed, reasoning) ==
  [i \in 1..Len(needed) |->
     [field |-> needed[i].name, status |-> "not_found", quote |-> <<>>,
      reasoning |-> reasoning, page |-> NULL, start |-> NULL, end |-> NULL,
      confidence |-> 0]]

\* parsed.extractions of an answer that parses: every field found with the
\* same quote, or every field not_found
ParsedExtractions(needed) ==
  {[i \in 1..Len(needed) |->
      [field |-> needed[i].name, status |-> st,
       quote |-> IF st = "found" THEN <<"a", "b">> ELSE <<>>,
       reasoning |-> "Found in section 1", page |-> NULL, start |-> NULL,
       end |-> NULL, confidence |-> IF st = "found" THEN 90 ELSE 0]] :
     st \in {"found", "not_found"}}

\* what a call of client.chat.completions.create can come to: an answer that
\* parses, an API error with or without "model" in its message, an answer
\* without content, an answer whose content is not JSON
CallOutcomes == {"parsed", "model_error", "api_error", "no_content", "not_json"}

\* validateExtractions
validateExtractions(extractions, fullText) ==
  [i \in 1..Len(extractions) |-> validateExtraction(extractions[i], fullText)]

\* lines 476-536: combine, validate, report, respond
RouteResponse(p, modelExtractions, fullText) ==
  LET allExtractions == p.auto \o modelExtractions
      validatedExtractions == validateExtractions(allExtractions, fullText)
  IN  [status |-> 200,
       model |-> p.model,
       extractions |-> validatedExtractions,
       report |-> generateValidationReport(allExtractions, validatedExtractions)]

InitRoute ==
  /\ op = "route"
  /\ outcome = "pending"
  /\ input \in [fileName : {UploadName}, fields : RouteFieldLists,
                fullText : RouteTexts, modelParam : {"", "gpt-4o"}]
  /\ output = Unused
  /\ proc = [pc |-> "start", calls |-> 0, model |-> "", auto |-> <<>>,
             needed |-> <<>>, usedFallback |-> FALSE, outcomes |-> <<>>]
  /\ NoValidateOrMerge

\* lines 256-386: a valid upload is parsed, the fields are split into
\* auto-populated ones and ones needing extraction, the first call is sent
RouteReceive ==
  /\ op = "route" /\ proc.pc = "start"
  /\ proc' = [proc EXCEPT
                !.pc = "primary",
                !.calls = 1,
                !.model = IF input.modelParam = "" THEN "gpt-5" ELSE input.modelParam,
                !.auto = autoExtractions(input.fields, input.fileName),
                !.needed = fieldsNeedingExtraction(input.fields)]
  /\ UNCHANGED <<op, outcome, text, claim, result, chunks, pages, merged, input, output>>

\* the handler answers with the given model extractions
Respond(p, modelExtractions) ==
  /\ outcome' = "returned"
  /\ output' = RouteResponse(p, modelExtractions, input.fullText)
  /\ proc' = [p EXCEPT !.pc = "done"]

\* lines 388-474: the first call completes; the handler answers or sends the
\* fallback call
PrimaryAnswer ==
  /\ op = "route" /\ proc.pc = "primary"
  /\ \E o \in CallOutcomes :
       LET p == [proc EXCEPT !.outcomes = Append(@, o)]
       IN  CASE o = "parsed" ->
                  \E parsed \in ParsedExtractions(p.needed) : Respond(p, parsed)
             [] o = "not_json" ->
                  Respond(p, EmptyExtractions(p.needed,
                    "AI extraction error - unable to parse response. Please try again."))
             [] OTHER ->
                  IF p.model = "gpt-5" /\ o = "model_error"
                  THEN /\ proc' = [p EXCEPT !.pc = "fallback", !.calls = 2,
                                            !.model = "gpt-4o", !.usedFallback = TRUE]
                       /\ UNCHANGED <<outcome, output>>
                  ELSE Respond(p, EmptyExtractions(p.needed,
                         "API error occurred during extraction. Please try again."))
  /\ UNCHANGED <<op, text, claim, result, chunks, pages, merged, input>>

\* lines 440-459: the fallback call completes and the handler answers; with
\* no content in the answer modelExtractions stays the empty list
FallbackAnswer ==
  /\ op = "route" /\ proc.pc = "fallback"
  /\ \E o \in CallOutcomes :
       LET p == [proc EXCEPT !.outcomes = Append(@, o)]
       IN  CASE o = "parsed" ->
                  \E parsed \in ParsedExtractions(p.needed) : Respond(p, parsed)
             [] o = "no_content" -> Respond(p, <<>>)
             [] OTHER ->
                  Respond(p, EmptyExtractions(p.needed,
                    "Both GPT-5 and gpt-4o fallback failed. Please try again."))
  /\ UNCHANGED <<op, text, claim, result, chunks, pages, merged, input>>

NextRoute == RouteReceive \/ PrimaryAnswer \/ FallbackAnswer

SpecRoute == InitRoute /\ [][NextRoute]_vars

RouteAnswered == op = "route" /\ outcome = "returned"

\* C29: every requested field whose name contains "source file" or
\* "file name" is in the response with status found, the file's name as
\* quote and confidence 1.0, was not sent to the model, and is not among the
\* fields that failed validation.
C29_AutoFieldsSurvive ==
  RouteAnswered =>
    \A i \in 1..Len(input.fields) :
      IsAutoField(input.fields[i]) =>
        /\ \E k \in 1..Len(output.extractions) :
             /\ output.extractions[k].field = input.fields[i].name
             /\ output.extractions[k].status = "found"
             /\ output.extractions[k].quote = input.fileName
             /\ output.extractions[k].confidence = 100
        /\ \A k \in 1..Len(proc.needed) : proc.needed[k].name # input.fields[i].name
        /\ \A k \in 1..Len(output.report.invalidFields) :
             output.report.invalidFields[k] # input.fields[i].name

\* the last call failed: API error, no content, or content that is not JSON
ExtractionFailed == proc.outcomes[Len(proc.outcomes)] # "parsed"

\* C30: the handler makes at most two calls, the second only after the first
\* failed with model gpt-5 and "model" in the error message; it answers
\* without error, with one record per field needing extraction, which is
\* not_found with empty quote and confidence 0 when the extraction failed.
C30_NoFieldLost ==
  RouteAnswered =>
    LET records == SubSeq(output.extractions, Len(proc.auto) + 1, Len(output.extractions))
    IN  /\ proc.calls <= 2
        /\ proc.calls = Len(proc.outcomes)
        /\ proc.calls = 2 => input.modelParam = "" /\ proc.outcomes[1] = "model_error"
        /\ output.status = 200
        /\ Len(records) = Len(proc.needed)
        /\ \A k \in 1..Len(proc.needed) :
             /\ k <= Len(records) => records[k].field = proc.needed[k].name
             /\ (ExtractionFailed /\ k <= Len(records)) =>
                  /\ records[k].status = "not_found"
                  /\ records[k].quote = <<>>
                  /\ records[k].confidence = 0

====
